---- MODULE Spec2Model ----
(***************************************************************************)
(* Model of src/main.c: a GTK application that opens one window, creates   *)
(* one SPICE session, and reacts to the session's "channel-new" signal,    *)
(* to the Main channel's "channel-event" signal and to the window's        *)
(* "destroy" signal.                                                       *)
(*                                                                         *)
(* The program's own state is the two globals (window, spiceSession), the  *)
(* signal handlers it has connected and the widgets it has created.  The   *)
(* SPICE transport and the GTK toolkit are the environment: they deliver   *)
(* signals serially, each handler running to completion (the GLib main     *)
(* loop), and the calls the program makes into them are recorded by what   *)
(* they do to the environment's state:                                     *)
(*   - spice_session_connect    : the session starts connecting;           *)
(*   - spice_session_disconnect : the session is disconnected and all its  *)
(*                                channels are closed;                     *)
(*   - spice_display_new + gtk_container_add : one display widget for      *)
(*                                (session, channel id) is attached;       *)
(*   - gtk_window_new + spice_usb_device_widget_new : one USB redirection  *)
(*                                window for the session is created.       *)
(* The environment is permissive: "channel-new" may be delivered for any   *)
(* channel type and id, any number of times, in any session state after    *)
(* the connect request, because the program never disconnects the handler  *)
(* and checks no state in it.  A "channel-event" is delivered only for a   *)
(* channel that is open, hence after that channel's "channel-new".         *)
(***************************************************************************)
EXTENDS Integers, Sequences, FiniteSets, TLC

\* ------------------------------------------------------------------ bounds
\* Number of channel objects the transport announces in one run.
MaxChannels == 2
\* Channel ids are 0 .. MaxId.
MaxId == 1
\* Number of window / session handles (activations of the application).
MaxActivations == 2

Handles == 1 .. MaxActivations
Ids == 0 .. MaxId

\* Raw channel types announced by the transport: 1 (main) and 2 (display) are
\* the two the program tests for; 9 is the USB redirection channel and 3
\* (inputs) stands for every other type.
ChannelTypes == {1, 2, 3, 9}
MainTypes == {1}
DisplayTypes == {2}
DeviceTypes == {9}

\* SpiceChannelEvent values delivered with "channel-event".
Events == {"OPENED", "CLOSED", "ERROR_CONNECT", "ERROR_IO"}

VARIABLES
  pc,            \* main(): "start" before activate, "running" in the main loop,
                 \*         "exited" once the last window is gone, "crashed"
  window,        \* global GtkWidget *window      (0 = NULL)
  spiceSession,  \* global SpiceSession *spiceSession (0 = NULL)
  nAct,          \* number of activations so far = handles allocated
  winLive,       \* per window handle: "none", "live", "destroyed"
  transport,     \* per session handle: "Idle", "Connecting", "Connected",
                 \*                     "Disconnected"
  connects,      \* per session: calls of spice_session_connect
  disconnects,   \* per session: calls of spice_session_disconnect
  channels,      \* channel objects announced so far, in order
  displays,      \* <<window, session, id>> -> display widgets attached
  usbWindows,    \* per session: USB redirection windows created
  connErr,       \* per session: a Main channel reported ERROR_CONNECT while
                 \*   the session was still Connecting (history)
  destroyConn,   \* windows with onClose connected to "destroy"
  newConn,       \* sessions with newChannel connected to "channel-new"
  missed         \* a "channel-new", or a Main channel's "channel-event",
                 \*   was emitted with no handler connected (history)

vars == <<pc, window, spiceSession, nAct, winLive, transport, connects,
          disconnects, channels, displays, usbWindows, connErr,
          destroyConn, newConn, missed>>

\* The part of the state the handlers change, as one value, so that a
\* handler that calls another composes.
St ==
  [pc |-> pc, winLive |-> winLive, transport |-> transport,
   connects |-> connects, disconnects |-> disconnects,
   channels |-> channels, displays |-> displays, usbWindows |-> usbWindows,
   connErr |-> connErr, destroyConn |-> destroyConn, newConn |-> newConn,
   missed |-> missed]

Apply(out) ==
  /\ pc' = out.pc
  /\ winLive' = out.winLive
  /\ transport' = out.transport
  /\ connects' = out.connects
  /\ disconnects' = out.disconnects
  /\ channels' = out.channels
  /\ displays' = out.displays
  /\ usbWindows' = out.usbWindows
  /\ connErr' = out.connErr
  /\ destroyConn' = out.destroyConn
  /\ newConn' = out.newConn
  /\ missed' = out.missed

\* A channel object: the session that announced it, its "channel-type" and
\* "channel-id" properties, whether channelEvent is connected to it, and
\* where the transport has it: "NEW" (announced, no event yet), "OPENED",
\* or, once it is no longer open, the event that ended it ("CLOSED" also
\* when the session's disconnect closed it).
Channel(s, t, i) ==
  [session |-> s, type |-> t, id |-> i, handler |-> FALSE, last |-> "NEW"]

IsOpen(c) == c.last \in {"NEW", "OPENED"}

\* ---------------------------------------------------------------- handlers
\* spice_session_disconnect(s): the session is disconnected, its channels
\* are closed.  A NULL session is rejected by the library's argument check.
spice_session_disconnect(st, s) ==
  IF s = 0 THEN st
  ELSE [st EXCEPT
          !.transport[s] = "Disconnected",
          !.disconnects[s] = @ + 1,
          !.channels = [o \in DOMAIN @ |->
                          IF @[o].session = s /\ IsOpen(@[o])
                            THEN [@[o] EXCEPT !.last = "CLOSED"]
                            ELSE @[o]]]

\* onClose(): disconnects the session the global names.
onClose(st) == {spice_session_disconnect(st, spiceSession)}

\* Window w is released; the application leaves its main loop (line 67
\* returns) when no window is left.
Released(st, w) ==
  [st EXCEPT
     !.winLive[w] = "destroyed",
     !.pc = IF \A v \in Handles : v = w \/ st.winLive[v] # "live"
              THEN "exited" ELSE @]

\* g_signal_emit_by_name(window, "destroy"): runs the handlers connected to
\* the window's destroy signal.  What the toolkit's own handler of that
\* signal then does to the window is not in this source: the window either
\* stays as it is or is released as by a user's close.  On a window that
\* has already been released the pointer dangles: the call either is
\* rejected by the instance check or takes the process down.
EmitDestroy(st) ==
  IF window = 0 THEN {st}
  ELSE IF st.winLive[window] = "live"
    THEN UNION {{a, Released(a, window)} :
                  a \in IF window \in st.destroyConn THEN onClose(st)
                                                     ELSE {st}}
  ELSE {st, [st EXCEPT !.pc = "crashed"]}

\* channelEvent with the test written against another error value.
channelEvent_wrongEvent(st, event) ==
  IF event = "ERROR_IO" THEN EmitDestroy(st) ELSE {st}

\* channelEvent that asks for the connection again after the error.
channelEvent_retry(st, event) ==
  IF event = "ERROR_CONNECT"
    THEN {IF spiceSession = 0 THEN a
          ELSE [a EXCEPT !.transport[spiceSession] = "Connecting",
                         !.connects[spiceSession] = @ + 1] :
            a \in EmitDestroy(st)}
    ELSE {st}

\* channelEvent(channel, event, user_data)
channelEvent(st, event) ==
  IF event = "ERROR_CONNECT" THEN EmitDestroy(st) ELSE {st}

\* gtk_container_add(GTK_CONTAINER(window), display) on the global window;
\* a dangling window pointer as in EmitDestroy.
AttachDisplay(st, s, i) ==
  IF window = 0 THEN {st}
  ELSE IF st.winLive[window] = "live"
    THEN {[st EXCEPT !.displays[<<window, s, i>>] = @ + 1]}
  ELSE {st, [st EXCEPT !.pc = "crashed"]}

\* The USB redirection window created only if the session has none yet.
CreateUsbWindow_once(st, s) ==
  IF st.pc = "crashed" \/ st.usbWindows[s] > 0 THEN st
  ELSE [st EXCEPT !.usbWindows[s] = @ + 1]

\* The USB redirection window and widget of lines 34-38.
CreateUsbWindow(st, s) ==
  IF st.pc = "crashed" THEN st
  ELSE [st EXCEPT !.usbWindows[s] = @ + 1]

\* newChannel with the display branch taken by every type other than 1.
newChannel_elseDisplay(st, s, o) ==
  LET channelType == st.channels[o].type
      channelId == st.channels[o].id
  IN  IF channelType = 1
        THEN {[st EXCEPT !.channels[o].handler = TRUE]}
      ELSE {CreateUsbWindow(a, s) : a \in AttachDisplay(st, s, channelId)}

\* newChannel with channelEvent connected to every channel, not only to
\* those of type 1.
newChannel_allHandlers(st, s, o) ==
  LET channelType == st.channels[o].type
      channelId == st.channels[o].id
      st1 == [st EXCEPT !.channels[o].handler = TRUE]
  IN  IF channelType = 2
        THEN {CreateUsbWindow(a, s) : a \in AttachDisplay(st1, s, channelId)}
      ELSE {st1}

\* newChannel(session, channel, user_data) for channel object o.
newChannel(st, s, o) ==
  LET channelType == st.channels[o].type
      channelId == st.channels[o].id
  IN  IF channelType = 1
        THEN {[st EXCEPT !.channels[o].handler = TRUE]}
      ELSE IF channelType = 2
        THEN {CreateUsbWindow(a, s) : a \in AttachDisplay(st, s, channelId)}
      ELSE {st}

\* The session announces a new channel object of type t and id i: the
\* "channel-new" signal runs newChannel if it is connected to the session.
Announce(st, s, t, i) ==
  LET o == Len(st.channels) + 1
      st1 == [st EXCEPT !.channels = Append(@, Channel(s, t, i))]
  IN  IF s \in st.newConn THEN newChannel(st1, s, o)
      ELSE {[st1 EXCEPT !.missed = TRUE]}

\* spice_session_connect(s): the connect request.  The transport announces
\* channels from the moment the request is made; the first one, the Main
\* channel, possibly before the call returns.
spice_session_connect(st, s) ==
  LET st1 == [st EXCEPT !.transport[s] = "Connecting",
                        !.connects[s] = @ + 1]
  IN  {st1} \cup (IF Len(st1.channels) < MaxChannels
                    THEN Announce(st1, s, 1, 0) ELSE {})

\* ----------------------------------------------------------------- actions
Init ==
  /\ pc = "start"
  /\ window = 0
  /\ spiceSession = 0
  /\ nAct = 0
  /\ winLive = [w \in Handles |-> "none"]
  /\ transport = [s \in Handles |-> "Idle"]
  /\ connects = [s \in Handles |-> 0]
  /\ disconnects = [s \in Handles |-> 0]
  /\ channels = <<>>
  /\ displays = [k \in Handles \X Handles \X Ids |-> 0]
  /\ usbWindows = [s \in Handles |-> 0]
  /\ connErr = [s \in Handles |-> FALSE]
  /\ destroyConn = {}
  /\ newConn = {}
  /\ missed = FALSE

\* activate with the connect request issued before newChannel is connected
\* to the session.
DoActivate_connectFirst ==
  LET h == nAct + 1
      w1 == [St EXCEPT !.winLive[h] = "live", !.destroyConn = @ \cup {h}]
  IN  /\ nAct' = h
      /\ window' = h
      /\ spiceSession' = h
      /\ \E out \in spice_session_connect(w1, h) :
           Apply([out EXCEPT !.newConn = @ \cup {h}, !.pc = "running"])

\* activate(app, user_data), in the order of its statements: a new window
\* with onClose on its destroy signal (lines 44-47), a new session with
\* newChannel on its channel-new signal (lines 49-51), then the connect
\* request (line 58).  The main loop runs once it has returned.
DoActivate ==
  LET h == nAct + 1
      w1 == [St EXCEPT !.winLive[h] = "live", !.destroyConn = @ \cup {h}]
      w2 == [w1 EXCEPT !.newConn = @ \cup {h}]
  IN  /\ nAct' = h
      /\ window' = h
      /\ spiceSession' = h
      /\ \E out \in spice_session_connect(w2, h) :
           Apply([out EXCEPT !.pc = "running"])

\* g_application_run emits "activate" once at startup.
Activate ==
  /\ pc = "start"
  /\ DoActivate

\* The session s announces a new channel object while the main loop runs.
ChannelNewOn(s, t, i) ==
  /\ pc = "running"
  /\ Len(channels) < MaxChannels
  /\ transport[s] # "Idle"
  /\ \E out \in Announce(St, s, t, i) : Apply(out)
  /\ UNCHANGED <<window, spiceSession, nAct>>

ChannelNew ==
  \E s \in 1 .. nAct, t \in ChannelTypes, i \in Ids : ChannelNewOn(s, t, i)

\* The transport's own bookkeeping when it reports event e on channel o:
\* an opened Main channel completes the connection; a closed or failed
\* channel is no longer open.
Deliver(st, o, e) ==
  LET c == st.channels[o]
      s == c.session
      t1 == IF e = "OPENED" /\ c.type \in MainTypes
               /\ st.transport[s] = "Connecting"
              THEN [st EXCEPT !.transport[s] = "Connected"]
              ELSE st
  IN  [t1 EXCEPT
         !.channels[o].last = e,
         !.connErr[s] = @ \/ (e = "ERROR_CONNECT" /\ c.type \in MainTypes
                                /\ st.transport[s] = "Connecting")]

\* The open channel o reports event e: "channel-event" -> channelEvent when
\* the handler is connected to that channel, nothing otherwise.
ChannelEventOn(o, e) ==
  /\ pc = "running"
  /\ o \in DOMAIN channels
  /\ IsOpen(channels[o])
  /\ LET st == Deliver(St, o, e)
     IN  IF channels[o].handler
           THEN \E out \in channelEvent(st, e) : Apply(out)
           ELSE Apply([st EXCEPT !.missed =
                         @ \/ channels[o].type \in MainTypes])
  /\ UNCHANGED <<window, spiceSession, nAct>>

ChannelEvent ==
  \E o \in DOMAIN channels, e \in Events : ChannelEventOn(o, e)

\* The user closes window w: its "destroy" signal runs onClose, if
\* connected, and the window is released.
UserDestroyOn(w) ==
  /\ pc = "running"
  /\ winLive[w] = "live"
  /\ \E out \in (IF w \in destroyConn THEN onClose(St) ELSE {St}) :
       Apply(Released(out, w))
  /\ UNCHANGED <<window, spiceSession, nAct>>

UserDestroy == \E w \in 1 .. nAct : UserDestroyOn(w)

Next == Activate \/ ChannelNew \/ ChannelEvent \/ UserDestroy

Spec == Init /\ [][Next]_vars

\* The scheduling the program can count on: g_application_run emits
\* "activate" at startup.  Every other step waits for a signal from the
\* transport or the user, which may never come; the program registers no
\* timer or idle source of its own.
SpecLive == Spec /\ WF_vars(Activate)

\* A further launch of the application while it runs: the default handler
\* of the application forwards it to the running process, which emits
\* "activate" again (line 66 connects activate to every emission).
Reactivate ==
  /\ pc = "running"
  /\ nAct < MaxActivations
  /\ DoActivate

NextMulti == Next \/ Reactivate

SpecMulti == Init /\ [][NextMulti]_vars

\* ------------------------------------------------------------- type check
TypeOK ==
  /\ pc \in {"start", "running", "exited", "crashed"}
  /\ window \in 0 .. MaxActivations
  /\ spiceSession \in 0 .. MaxActivations
  /\ nAct \in 0 .. MaxActivations
  /\ Len(channels) <= MaxChannels
  /\ \A s \in Handles : transport[s] \in
       {"Idle", "Connecting", "Connected", "Disconnected"}

\* ------------------------------------------------------------ observations
\* Channel objects of session s whose type is in T: the channel-new
\* notifications of that kind delivered so far.
Announced(s, T) ==
  {o \in DOMAIN channels : channels[o].session = s /\ channels[o].type \in T}

\* Those of them for channel id i.
AnnouncedId(s, T, i) == {o \in Announced(s, T) : channels[o].id = i}

\* Those of them the transport still has open.
OpenOf(s, T) == {o \in Announced(s, T) : IsOpen(channels[o])}

RECURSIVE SumDisplays(_, _, _)
SumDisplays(W, s, i) ==
  IF W = {} THEN 0
  ELSE LET w == CHOOSE x \in W : TRUE
       IN  displays[<<w, s, i>>] + SumDisplays(W \ {w}, s, i)

\* Display widgets created for channel id i of session s, on any window.
DisplayCount(s, i) == SumDisplays(Handles, s, i)

\* Channel types that are neither Main, Display nor DeviceRedirection.
OtherTypes == ChannelTypes \ (MainTypes \cup DisplayTypes \cup DeviceTypes)

NoSurfaces(s) ==
  /\ usbWindows[s] = 0
  /\ \A i \in Ids : DisplayCount(s, i) = 0

\* The session state of the design's state machine as the program shows
\* it.  spice_session_disconnect runs the whole teardown inside the
\* handler that calls it, so Disconnecting is never a state between two
\* handlers: teardown begun and teardown done coincide in "Disconnected".
TornDown(s) == transport[s] = "Disconnected"

\* ------------------------------------------------------------------ claims

\* C1: the USB redirection surface of a session exists exactly once as soon
\* as one DeviceRedirection channel-new has arrived and not at all before,
\* whatever other channel-new events arrive; never more than one.
C1_DeviceSurfaceOnce ==
  \A s \in Handles :
    pc # "crashed" =>
      usbWindows[s] = (IF Announced(s, DeviceTypes) # {} THEN 1 ELSE 0)

C3_ConnectErrorNoSurfaces ==
  \A s \in Handles :
    connErr[s] => TornDown(s) /\ NoSurfaces(s)

\* C4: in a Connected session the channel-new of a display channel id adds
\* exactly one display widget for that id, and the close of that display
\* channel removes exactly one.
C4_DisplayAttachDetach ==
  [][\A s \in Handles : \A i \in Ids :
       (transport[s] = "Connected" /\ transport'[s] = "Connected"
          /\ pc' = "running") =>
         /\ (/\ Len(channels') = Len(channels) + 1
             /\ Len(channels') \in AnnouncedId(s, DisplayTypes, i)') =>
              DisplayCount(s, i)' = DisplayCount(s, i) + 1
         /\ (\E o \in AnnouncedId(s, DisplayTypes, i) :
               /\ IsOpen(channels[o])
               /\ channels'[o].last = "CLOSED") =>
              DisplayCount(s, i)' = DisplayCount(s, i) - 1]_vars

\* C5: while a session is still Connecting no display widget and no USB
\* window exists for it: channel-new events seen before the Main channel
\* opened are held back.
C5_NoSurfaceWhileConnecting ==
  \A s \in Handles :
    (transport[s] = "Connecting" /\ pc # "crashed") => NoSurfaces(s)

\* C6: a channel-new delivered for a session that has entered teardown
\* creates no display widget and no USB window and connects no handler.
C6_ChannelNewAfterTeardownIgnored ==
  [][\A s \in Handles :
       (Len(channels') = Len(channels) + 1
          /\ channels'[Len(channels')].session = s
          /\ TornDown(s)) =>
         /\ displays' = displays
         /\ usbWindows' = usbWindows
         /\ ~channels'[Len(channels')].handler]_vars

\* C7: a window destroy that arrives when the session is already
\* disconnected issues no further spice_session_disconnect and changes no
\* session state.
C7_DisconnectIdempotent ==
  [][\A w \in Handles :
       (winLive[w] = "live" /\ winLive'[w] = "destroyed"
          /\ spiceSession # 0 /\ TornDown(spiceSession)) =>
         /\ disconnects' = disconnects
         /\ transport' = transport
         /\ channels' = channels]_vars

\* C8: however often channel-new is delivered for one Display (session, id)
\* pair, the pair is registered once: at most one display widget is created
\* for it.
C8_DuplicateChannelNewOnce ==
  \A s \in Handles : \A i \in Ids :
    pc # "crashed" => DisplayCount(s, i) <= 1

\* C9: while at least one DeviceRedirection channel of a session is open
\* the session's USB redirection surface exists, exactly once.
C9_DeviceSurfaceWhileChannelOpen ==
  \A s \in Handles :
    (pc # "crashed" /\ OpenOf(s, DeviceTypes) # {}) => usbWindows[s] = 1

\* C10: in a Connected session a connect-class error event on any open
\* channel, whatever its type, starts the teardown of the session.
C10_FatalOnAnyChannel ==
  [][\A o \in DOMAIN channels :
       (IsOpen(channels[o])
          /\ transport[channels[o].session] = "Connected"
          /\ channels'[o].last = "ERROR_CONNECT"
          /\ pc' # "crashed") =>
         TornDown(channels[o].session)']_vars

\* C11: teardown is triggered at most once per session: however the fatal
\* error and the window's destroy follow each other, the session receives
\* at most one spice_session_disconnect.
C11_SingleTeardown ==
  \A s \in Handles : disconnects[s] <= 1

\* C12: every display widget belongs to a display channel that is still
\* open: for each (session, id) there are no more display widgets than open
\* display channels.
C12_NoBindingOutlivesChannel ==
  \A s \in Handles : \A i \in Ids :
    DisplayCount(s, i) <=
      Cardinality({o \in AnnouncedId(s, DisplayTypes, i) :
                     IsOpen(channels[o])})

\* C13: sessions of separate activations share no state: the close of
\* window w disconnects, and changes the state of, no session but the one
\* created with w, and a fatal error on a channel of session s tears down
\* no session and no window but those of s.
C13_SessionsIndependent ==
  [][/\ \A w \in Handles :
          UserDestroyOn(w) =>
            \A s \in Handles \ {w} :
              /\ disconnects'[s] = disconnects[s]
              /\ transport'[s] = transport[s]
     /\ \A o \in DOMAIN channels :
          ChannelEventOn(o, "ERROR_CONNECT") =>
            \A s \in Handles \ {channels[o].session} :
              /\ disconnects'[s] = disconnects[s]
              /\ transport'[s] = transport[s]
              /\ winLive'[s] = winLive[s]]_vars

\* C14: a channel-new whose type is neither Main, Display nor
\* DeviceRedirection is accepted and changes nothing: the channel object
\* exists with no handler connected to it, and the session state, the
\* windows, the display widgets, the USB windows and the connect and
\* disconnect calls are as before.
C14_UnknownTypeNoEffect ==
  [][\A s \in Handles : \A t \in OtherTypes : \A i \in Ids :
       ChannelNewOn(s, t, i) =>
         /\ channels' = Append(channels, Channel(s, t, i))
         /\ UNCHANGED <<pc, window, spiceSession, winLive, transport,
                        connects, disconnects, displays, usbWindows,
                        destroyConn, newConn, missed>>]_vars

\* A channel of another type has been announced after a Display channel,
\* whose widgets are still the only ones.
C14_Witness ==
  /\ Len(channels) = 2
  /\ channels[1].type \in DisplayTypes
  /\ channels[2].type \in OtherTypes
  /\ usbWindows[1] = 1
  /\ pc = "running"

\* C15: the connect request is issued exactly once per session, when the
\* session leaves Idle, and never again: not after a connect error, a
\* fatal channel error or a disconnect.
C15_ConnectOnce ==
  \A s \in Handles :
    connects[s] = (IF transport[s] = "Idle" THEN 0 ELSE 1)

\* The session has had its connect error and two disconnect calls (the
\* emitted destroy, then the window's close) and still its one connect.
C15_Witness ==
  /\ connErr[1]
  /\ disconnects[1] = 2
  /\ transport[1] = "Disconnected"
  /\ connects[1] = 1

\* C16: a session does not stay Connecting forever: also when no Main
\* channel event is ever delivered, it eventually leaves Connecting.
C16_ConnectingTimesOut ==
  \A s \in Handles :
    (transport[s] = "Connecting") ~> (transport[s] # "Connecting")

\* C17: USB window creation is coupled to the Display branch: each
\* channel-new of type 2 creates one display widget for its id and one USB
\* redirection window, a channel-new of any other type creates neither; so
\* a session has as many USB windows as Display channel-new events, and
\* for each id as many display widgets as Display channel-new events for it.
C17_UsbCoupledToDisplay ==
  \A s \in Handles :
    /\ usbWindows[s] = Cardinality(Announced(s, DisplayTypes))
    /\ \A i \in Ids :
         DisplayCount(s, i) = Cardinality(AnnouncedId(s, DisplayTypes, i))

\* A DeviceRedirection channel-new, which created nothing, then a Display
\* channel-new, which created the one USB window.
C17_Witness ==
  /\ Len(channels) = 2
  /\ channels[1].type \in DeviceTypes
  /\ channels[2].type \in DisplayTypes
  /\ usbWindows[1] = 1
  /\ DisplayCount(1, channels[2].id) = 1

\* C18: only ERROR_CONNECT on a Main channel triggers teardown.  Every
\* other event on a Main channel, and every event on a channel of another
\* type, leaves the windows, the widgets and every other channel as they
\* were and issues no disconnect and no connect; the only session change
\* is the transport's own Connecting -> Connected on a Main OPENED.
C18_OnlyMainConnectErrorTearsDown ==
  [][\A o \in DOMAIN channels : \A e \in Events :
       (ChannelEventOn(o, e)
          /\ ~(channels[o].type \in MainTypes /\ e = "ERROR_CONNECT")) =>
         /\ UNCHANGED <<pc, window, spiceSession, winLive, connects,
                        disconnects, displays, usbWindows, destroyConn,
                        newConn>>
         /\ \A o2 \in DOMAIN channels \ {o} : channels'[o2] = channels[o2]
         /\ \A s \in Handles :
              \/ transport'[s] = transport[s]
              \/ /\ e = "OPENED"
                 /\ channels[o].type \in MainTypes
                 /\ s = channels[o].session
                 /\ transport[s] = "Connecting"
                 /\ transport'[s] = "Connected"]_vars

\* A Connected session whose Main channel reported ERROR_IO and whose
\* Display channel reported ERROR_CONNECT: no disconnect was issued.
C18_Witness ==
  /\ Len(channels) = 2
  /\ channels[1].type \in MainTypes
  /\ channels[1].last = "ERROR_IO"
  /\ channels[2].type \in DisplayTypes
  /\ channels[2].last = "ERROR_CONNECT"
  /\ transport[1] = "Connected"
  /\ disconnects[1] = 0
  /\ winLive[1] = "live"

\* C19: newChannel is connected to the session and onClose to the window
\* before the connect request is issued, and channelEvent is connected to a
\* Main channel at its channel-new; so no channel-new and no Main channel
\* event is emitted without its handler, and onClose cannot run before the
\* session handle exists.
C19_HandlersBeforeConnect ==
  /\ ~missed
  /\ \A s \in Handles :
       connects[s] > 0 => (s \in newConn /\ s \in destroyConn)
  /\ \A o \in DOMAIN channels :
       channels[o].type \in MainTypes => channels[o].handler
  /\ destroyConn # {} => spiceSession # 0

\* The Main channel was announced and its OPENED event delivered to
\* channelEvent, then a Display channel was announced: nothing was missed.
C19_Witness ==
  /\ Len(channels) = 2
  /\ channels[1].type \in MainTypes
  /\ channels[1].handler
  /\ channels[1].last = "OPENED"
  /\ channels[2].type \in DisplayTypes
  /\ transport[1] = "Connected"
  /\ usbWindows[1] = 1
  /\ ~missed

====
